---- MODULE Spec2Model ----
(***************************************************************************)
(* Model of AngleCompensator (driver/src/helper/angle_compensator.cpp):    *)
(* the sinusoidal angle compensation model and the decoder of the          *)
(* MCAngleCompSin reply (ASCII or binary).                                 *)
(*                                                                         *)
(* Characters and bytes are their codes 0..255; a string is a sequence of  *)
(* codes.  An unsigned long (64 bit, LP64) is a sequence of four 16-bit    *)
(* limbs, least significant first, so that every intermediate value fits   *)
(* the model checker's integers.  A double is num/den * unit with a        *)
(* symbolic unit ("1", "M_PI" or "deg2radFactor"); zero is canonical.      *)
(***************************************************************************)
EXTENDS Integers, Sequences, FiniteSets, TLC

(* ----------------------------- bounds ---------------------------------- *)
\* how many of the sample calibration words are used as inputs
NWords == 3
\* how many of the sample value tokens are used as inputs
NTokens == 5
\* how many of the sample bad literals are used as inputs
NBadTokens == 5
\* ASCII replies with a wrong token count have 0..MaxTokens tokens
MaxTokens == 6

(* ------------------------- character codes ----------------------------- *)
NUL == 0
SP == 32
PLUS == 43
MINUS == 45
Chr0 == 48
ChrUpA == 65
ChrLoA == 97
ChrUpX == 88
ChrLoX == 120

Min(a, b) == IF a < b THEN a ELSE b

IsDigit(c) == c >= 48 /\ c <= 57
IsXDigit(c) == IsDigit(c) \/ (c >= 65 /\ c <= 70) \/ (c >= 97 /\ c <= 102)
\* isspace() of the C locale
IsSpace(c) == c \in {9, 10, 11, 12, 13, 32}

XDigitVal(c) ==
  IF IsDigit(c) THEN c - Chr0
  ELSE IF c >= 97 THEN c - ChrLoA + 10
  ELSE c - ChrUpA + 10

(* --------------------- const char* / getline --------------------------- *)
RECURSIVE FirstIndex(_, _, _)
\* index of the first occurrence of c in s at or after i, 0 when absent
FirstIndex(s, c, i) ==
  IF i > Len(s) THEN 0
  ELSE IF s[i] = c THEN i
  ELSE FirstIndex(s, c, i + 1)

\* the characters a const char* denotes: up to the first NUL
CStr(s) ==
  LET k == FirstIndex(s, NUL, 1)
  IN IF k = 0 THEN s ELSE SubSeq(s, 1, k - 1)

RECURSIVE GetLineTokens(_)
\* while (std::getline(ss, token, ' ')) cont.push_back(token);
GetLineTokens(s) ==
  IF s = << >> THEN << >>
  ELSE LET k == FirstIndex(s, SP, 1)
       IN IF k = 0 THEN << s >>
          ELSE << SubSeq(s, 1, k - 1) >> \o GetLineTokens(SubSeq(s, k + 1, Len(s)))

(* ------------------- unsigned long as four limbs ----------------------- *)
LimbBase == 65536
ULZero == << 0, 0, 0, 0 >>

RECURSIVE MulAddFrom(_, _, _, _)
\* limbs * m + carry, from limb i upwards; the carry out of the top limb is kept
MulAddFrom(u, m, carry, i) ==
  IF i > Len(u) THEN [val |-> u, carry |-> carry]
  ELSE LET t == u[i] * m + carry
       IN MulAddFrom([u EXCEPT ![i] = t % LimbBase], m, t \div LimbBase, i + 1)

MulAdd(u, m, d) == MulAddFrom(u, m, d, 1)

\* two's complement negation modulo 2^64
ULNegate(u) ==
  MulAddFrom([i \in 1..Len(u) |-> LimbBase - 1 - u[i]], 1, 1, 1).val

RECURSIVE AccumDigits(_, _, _, _, _)
\* Horner accumulation of the leading digits of s (from index i) in the
\* given base; stops at the first character that is not a digit of the base
AccumDigits(s, i, base, acc, ovf) ==
  IF i > Len(s) \/ ~(IF base = 16 THEN IsXDigit(s[i]) ELSE IsDigit(s[i]))
  THEN [val |-> acc, ovf |-> ovf, next |-> i]
  ELSE LET r == MulAdd(acc, base, XDigitVal(s[i]))
       IN AccumDigits(s, i + 1, base, r.val, ovf \/ r.carry # 0)

RECURSIVE SkipSpace(_, _)
SkipSpace(s, i) ==
  IF i <= Len(s) /\ IsSpace(s[i]) THEN SkipSpace(s, i + 1) ELSE i

(* ------------------------ numeric conversions --------------------------- *)
ULongMax == << 65535, 65535, 65535, 65535 >>
LongMax == << 65535, 65535, 65535, 32767 >>
LongMin == << 0, 0, 0, 32768 >>

\* std::stoul(str, nullptr, 16): strtoul skips white space, takes an optional
\* sign and an optional 0x prefix, converts the longest run of hex digits;
\* no digit throws std::invalid_argument, overflow throws std::out_of_range
StoUL16(str) ==
  LET i0 == SkipSpace(str, 1)
      neg == i0 <= Len(str) /\ str[i0] = MINUS
      i1 == IF i0 <= Len(str) /\ str[i0] \in {PLUS, MINUS} THEN i0 + 1 ELSE i0
      pfx == /\ i1 + 2 <= Len(str)
             /\ str[i1] = Chr0
             /\ str[i1 + 1] \in {ChrUpX, ChrLoX}
             /\ IsXDigit(str[i1 + 2])
      i2 == IF pfx THEN i1 + 2 ELSE i1
      r == AccumDigits(str, i2, 16, ULZero, FALSE)
  IN IF r.next = i2 THEN [status |-> "invalid_argument", val |-> ULZero]
     ELSE IF r.ovf THEN [status |-> "out_of_range", val |-> ULongMax]
     ELSE [status |-> "ok", val |-> IF neg THEN ULNegate(r.val) ELSE r.val]

\* sscanf(str, "%ld", &h): an optional sign and the longest run of decimal
\* digits; without a digit nothing is stored and h keeps its old value; the
\* long is stored into the unsigned long bit for bit (strtol clamps)
SscanfLd(str, h) ==
  LET i0 == SkipSpace(str, 1)
      neg == i0 <= Len(str) /\ str[i0] = MINUS
      i1 == IF i0 <= Len(str) /\ str[i0] \in {PLUS, MINUS} THEN i0 + 1 ELSE i0
      r == AccumDigits(str, i1, 10, ULZero, FALSE)
      big == r.ovf \/ r.val[4] >= 32768
  IN IF r.next = i1 THEN h
     ELSE IF neg THEN (IF big THEN LongMin ELSE ULNegate(r.val))
     ELSE (IF big THEN LongMax ELSE r.val)

\* the narrowing without the cast to a signed type: (uint16_t)(0xFFFF & h)
ToInt16_Unsigned(h) == h[1]

\* (int16_t)(0xFFFF & h)
ToInt16(h) == IF h[1] >= 32768 THEN h[1] - LimbBase ELSE h[1]

\* (int32_t)(0xFFFFFFFF & h)
ToInt32(h) ==
  (IF h[2] >= 32768 THEN h[2] - LimbBase ELSE h[2]) * LimbBase + h[1]

(* ------------------------------ doubles --------------------------------- *)
Zero == [num |-> 0, den |-> 1, unit |-> "1"]

\* 1/10000.0 * n
Scale10000th(n) ==
  IF n = 0 THEN Zero ELSE [num |-> n, den |-> 10000, unit |-> "1"]

\* x/180.0 * M_PI
DegToRad(x) ==
  IF x.num = 0 THEN Zero ELSE [num |-> x.num, den |-> x.den * 180, unit |-> "M_PI"]

\* deg2radFactor * x, with deg2radFactor = 0.01745329252
TimesDeg2RadFactor(x) ==
  IF x.num = 0 THEN Zero ELSE [num |-> x.num, den |-> x.den, unit |-> "deg2radFactor"]

(* --------------------------- parseAsciiReply ---------------------------- *)
\* char ch = cont[2+i][0]; the element past the end of an empty string is NUL
FirstChar(tok) == IF Len(tok) = 0 THEN NUL ELSE tok[1]

\* one turn of the loop over the three value tokens: helperArr[i] starts at 0
ParseValueToken(tok) ==
  IF FirstChar(tok) \in {PLUS, MINUS}
  THEN [status |-> "ok", val |-> SscanfLd(tok, ULZero)]
  ELSE StoUL16(tok)

\* the loop of lines 162-173 and the narrowing of lines 174-176; the first
\* token whose conversion throws ends the call
ParseValues(cont) ==
  LET h0 == ParseValueToken(cont[3])
      h1 == ParseValueToken(cont[4])
      h2 == ParseValueToken(cont[5])
  IN IF h0.status # "ok" THEN [status |-> h0.status]
     ELSE IF h1.status # "ok" THEN [status |-> h1.status]
     ELSE IF h2.status # "ok" THEN [status |-> h2.status]
     ELSE [status |-> "ok",
           ampl10000th |-> ToInt16(h0.val),
           phase10000th |-> ToInt32(h1.val),
           offset10000th |-> ToInt16(h2.val)]

\* the radian members computed before the degree members are assigned
UpdatedModel_StaleRad(m, ampl10000th, phase10000th, offset10000th) ==
  [amplCorr |-> Scale10000th(ampl10000th),
   phaseCorrInDeg |-> Scale10000th(phase10000th),
   phaseCorrInRad |-> DegToRad(m.phaseCorrInDeg),
   offsetCorrInDeg |-> Scale10000th(offset10000th),
   offsetCorrInRad |-> DegToRad(m.offsetCorrInDeg)]

\* lines 179-184: the five member assignments, in the order of the code
UpdatedModel(m, ampl10000th, phase10000th, offset10000th) ==
  LET m1 == [m EXCEPT !.amplCorr = Scale10000th(ampl10000th)]
      m2 == [m1 EXCEPT !.phaseCorrInDeg = Scale10000th(phase10000th)]
      m3 == [m2 EXCEPT !.offsetCorrInDeg = Scale10000th(offset10000th)]
      m4 == [m3 EXCEPT !.offsetCorrInRad = DegToRad(m3.offsetCorrInDeg)]
  IN [m4 EXCEPT !.phaseCorrInRad = DegToRad(m4.phaseCorrInDeg)]

(* ------------------------------ parseReply ------------------------------ *)
HexDigitUpper(n) == IF n < 10 THEN Chr0 + n ELSE ChrUpA + (n - 10)

\* the format without the zero padding: sprintf(szTmp, "%X", b)
SprintfX02_NoPad(b) ==
  IF b < 16 THEN << HexDigitUpper(b) >>
  ELSE << HexDigitUpper(b \div 16), HexDigitUpper(b % 16) >>

\* sprintf(szTmp, "%02X", b)
SprintfX02(b) == << HexDigitUpper(b \div 16), HexDigitUpper(b % 16) >>

RECURSIVE BinaryToAsciiFrom_TrailingSpace(_, _, _, _)
\* the loop without the test relCnt < 12: a space after the twelfth byte too
BinaryToAsciiFrom_TrailingSpace(replyVec, i, relCnt, stmp) ==
  IF i > Len(replyVec) THEN stmp
  ELSE IF i - 1 < Len(replyVec) - 12
       THEN BinaryToAsciiFrom_TrailingSpace(replyVec, i + 1, relCnt,
                                            Append(stmp, replyVec[i]))
       ELSE LET cnt == relCnt + 1
                hex == stmp \o << HexDigitUpper(replyVec[i] \div 16),
                                  HexDigitUpper(replyVec[i] % 16) >>
            IN BinaryToAsciiFrom_TrailingSpace(replyVec, i + 1, cnt,
                 IF cnt % 4 = 0 THEN Append(hex, SP) ELSE hex)

RECURSIVE BinaryToAsciiFrom(_, _, _, _)
\* the loop of lines 203-224: i is the 1-based index of the next byte
BinaryToAsciiFrom(replyVec, i, relCnt, stmp) ==
  IF i > Len(replyVec) THEN stmp
  ELSE IF i - 1 < Len(replyVec) - 12
       THEN BinaryToAsciiFrom(replyVec, i + 1, relCnt, Append(stmp, replyVec[i]))
       ELSE LET cnt == relCnt + 1
                hex == stmp \o SprintfX02(replyVec[i])
            IN BinaryToAsciiFrom(replyVec, i + 1, cnt,
                 IF cnt < 12 /\ cnt % 4 = 0 THEN Append(hex, SP) ELSE hex)

\* the string handed to parseAsciiReply: stmp is filled in binary mode only
StmpOf(isBinary, replyVec) ==
  IF isBinary THEN BinaryToAsciiFrom(replyVec, 1, 0, << >>) ELSE << >>

\* the indices of replyVec the loop reads (0-based, as in the code)
ReadIndices(isBinary, replyVec) ==
  IF isBinary THEN {i \in 0..(Len(replyVec) - 1) : TRUE} ELSE {}

(* ------------------------------- inputs --------------------------------- *)
\* "sRA" and "MCAngleCompSin"
TokSRA == << 115, 82, 65 >>
TokMCAngleCompSin == << 77, 67, 65, 110, 103, 108, 101, 67, 111, 109, 112, 83, 105, 110 >>

\* the header of the testbed and a second, short one ("a b")
Headers == { TokSRA \o << SP >> \o TokMCAngleCompSin, << 97, SP, 98 >> }

\* 32-bit calibration words: their bytes (big-endian) and their renderings
SampleWords == <<
  \* 00000765
  [bytes |-> << 0, 0, 7, 101 >>,
   full |-> << 48, 48, 48, 48, 48, 55, 54, 53 >>,
   stripped |-> << 55, 54, 53 >>,
   low16 |-> << 48, 55, 54, 53 >>],
  \* FFFCC9B9
  [bytes |-> << 255, 252, 201, 185 >>,
   full |-> << 70, 70, 70, 67, 67, 57, 66, 57 >>,
   stripped |-> << 70, 70, 70, 67, 67, 57, 66, 57 >>,
   low16 |-> << 67, 57, 66, 57 >>],
  \* FFFFFF0B
  [bytes |-> << 255, 255, 255, 11 >>,
   full |-> << 70, 70, 70, 70, 70, 70, 48, 66 >>,
   stripped |-> << 70, 70, 70, 70, 70, 70, 48, 66 >>,
   low16 |-> << 70, 70, 48, 66 >>],
  \* 0000FFFE
  [bytes |-> << 0, 0, 255, 254 >>,
   full |-> << 48, 48, 48, 48, 70, 70, 70, 69 >>,
   stripped |-> << 70, 70, 70, 69 >>,
   low16 |-> << 70, 70, 70, 69 >>],
  \* 80007FFF
  [bytes |-> << 128, 0, 127, 255 >>,
   full |-> << 56, 48, 48, 48, 55, 70, 70, 70 >>,
   stripped |-> << 56, 48, 48, 48, 55, 70, 70, 70 >>,
   low16 |-> << 55, 70, 70, 70 >>],
  \* 00000000
  [bytes |-> << 0, 0, 0, 0 >>,
   full |-> << 48, 48, 48, 48, 48, 48, 48, 48 >>,
   stripped |-> << 48 >>,
   low16 |-> << 48, 48, 48, 48 >>] >>

Words == { SampleWords[i] : i \in 1..Min(NWords, Len(SampleWords)) }

\* value tokens: FFFE, +1893, -210503, -245, 8000, +70000, fffcc9b9, -32769,
\* 1FFFF0001
SampleTokens == <<
  << 70, 70, 70, 69 >>,
  << 43, 49, 56, 57, 51 >>,
  << 45, 50, 49, 48, 53, 48, 51 >>,
  << 45, 50, 52, 53 >>,
  << 56, 48, 48, 48 >>,
  << 43, 55, 48, 48, 48, 48 >>,
  << 102, 102, 102, 99, 99, 57, 98, 57 >>,
  << 45, 51, 50, 55, 54, 57 >>,
  << 49, 70, 70, 70, 70, 48, 48, 48, 49 >> >>

Tokens == { SampleTokens[i] : i \in 1..Min(NTokens, Len(SampleTokens)) }

\* tokens that are no numeric literal: +x, 12G, G, +, the empty token, -1x, 0x
SampleBadTokens == <<
  << 43, 120 >>,
  << 49, 50, 71 >>,
  << 71 >>,
  << 43 >>,
  << >>,
  << 45, 49, 120 >>,
  << 48, 120 >> >>

BadTokens == { SampleBadTokens[i] : i \in 1..Min(NBadTokens, Len(SampleBadTokens)) }

\* "765"
Tok765 == << 55, 54, 53 >>

Reply5(hdr, t1, t2, t3) == hdr \o << SP >> \o t1 \o << SP >> \o t2 \o << SP >> \o t3

\* binary frames: a header, a space and three packed words
BinaryReplies ==
  { h \o << SP >> \o a.bytes \o p.bytes \o o.bytes :
      h \in Headers, a \in Words, p \in Words, o \in Words }

\* the data of the testbed
DataArr == << 0, 0, 7, 101, 255, 252, 201, 185, 255, 255, 255, 11 >>

\* binary payloads of fewer than 12 bytes
ShortReplies == { SubSeq(DataArr, 1, n) : n \in 0..11 }

RenderStyles == { "full", "stripped", "low16" }

Render(w, style, narrow) ==
  IF style = "full" THEN w.full
  ELSE IF style = "stripped" THEN w.stripped
  ELSE IF narrow THEN w.low16 ELSE w.full

\* ASCII replies that carry the words of a binary frame as hex literals
HexReplies ==
  { Reply5(h, Render(a, st, TRUE), Render(p, st, FALSE), Render(o, st, TRUE)) :
      h \in Headers, a \in Words, p \in Words, o \in Words, st \in RenderStyles }

\* ASCII replies over the sample value tokens
TokenReplies ==
  { Reply5(TokSRA \o << SP >> \o TokMCAngleCompSin, t1, t2, t3) :
      t1 \in Tokens, t2 \in Tokens, t3 \in Tokens }

\* five-token replies with one bad literal among the value tokens
BadReplies ==
  { Reply5(TokSRA \o << SP >> \o TokMCAngleCompSin,
           IF k = 1 THEN b ELSE Tok765,
           IF k = 2 THEN b ELSE Tok765,
           IF k = 3 THEN b ELSE Tok765) : b \in BadTokens, k \in 1..3 }

RECURSIVE TokenRun(_)
\* "sRA MCAngleCompSin 1 2 ..." cut to n tokens
TokenRun(n) ==
  IF n = 0 THEN << >>
  ELSE IF n = 1 THEN TokSRA
  ELSE IF n = 2 THEN TokSRA \o << SP >> \o TokMCAngleCompSin
  ELSE TokenRun(n - 1) \o << SP, Chr0 + ((n - 2) % 10) >>

\* replies whose token count is not five
MiscountReplies == { TokenRun(n) : n \in (0..MaxTokens) \ {5} }

AsciiReplies == HexReplies \cup TokenReplies \cup BadReplies \cup MiscountReplies

\* raw angles handed to the compensation
Angles == { 0, 90, 359 }

\* what the three locals of lines 154-156 may hold when they are read
\* without having been assigned
UninitInt16 == { 0, -21846 }
UninitInt32 == { 0, 1431655765 }

(* ------------------------------- state ---------------------------------- *)
VARIABLES
  ac,        \* the AngleCompensator: its five members
  op,        \* the member function called last
  isBinary,  \* parseReply: its flag
  replyVec,  \* parseReply: its byte vector
  stmp,      \* parseReply: the string it builds
  replyStr,  \* parseAsciiReply: its argument
  outcome,   \* "0" (retCode) or the exception that left the call
  ret,       \* compensateAngleIn...: the value returned
  wpc,       \* two threads: the line the decoding thread is at
  rpc,       \* two threads: the compensating thread's function and the
             \*   members it has still to read
  rd         \* two threads: the members the compensating thread has read

vars == << ac, op, isBinary, replyVec, stmp, replyStr, outcome, ret, wpc, rpc, rd >>

thrVars == << wpc, rpc, rd >>

NoThread == [fn |-> "none", pending |-> {}, returned |-> FALSE]
NoReads == [f \in {} |-> Zero]

NoCall == "none"

\* the names of the member functions, as op records them
DecodeOps == { "parseAsciiReply", "parseReply" }
CompensateOps == { "compensateAngleInRad", "compensateAngleInDeg" }

\* the constructor: no correction
Init ==
  /\ ac = [amplCorr |-> Zero, phaseCorrInDeg |-> Zero, phaseCorrInRad |-> Zero,
           offsetCorrInDeg |-> Zero, offsetCorrInRad |-> Zero]
  /\ op = "AngleCompensator"
  /\ isBinary = FALSE
  /\ replyVec = << >>
  /\ stmp = << >>
  /\ replyStr = << >>
  /\ outcome = NoCall
  /\ ret = NoCall
  /\ wpc = "none"
  /\ rpc = NoThread
  /\ rd = NoReads

\* the body of parseAsciiReply on the string str
ParseAsciiBody(str) ==
  LET cont == GetLineTokens(CStr(str))
  IN /\ replyStr' = str
     /\ ret' = NoCall
     /\ UNCHANGED thrVars
     /\ \/ /\ Len(cont) = 5
           /\ LET v == ParseValues(cont)
              IN IF v.status = "ok"
                 THEN /\ ac' = UpdatedModel(ac, v.ampl10000th, v.phase10000th,
                                            v.offset10000th)
                      /\ outcome' = "0"
                 ELSE /\ ac' = ac
                      /\ outcome' = v.status
        \/ /\ Len(cont) # 5
           /\ \E a \in UninitInt16, p \in UninitInt32, o \in UninitInt16 :
                ac' = UpdatedModel(ac, a, p, o)
           /\ outcome' = "0"

\* int AngleCompensator::parseAsciiReply(const char *replyStr)
ParseAsciiReply(str) ==
  /\ op' = "parseAsciiReply"
  /\ ParseAsciiBody(str)

\* a caller that holds no byte vector
NoVector ==
  /\ isBinary' = FALSE
  /\ replyVec' = << >>
  /\ stmp' = << >>

\* int AngleCompensator::parseReply(bool isBinary, std::vector<unsigned char>&)
ParseReply(bin, vec) ==
  /\ op' = "parseReply"
  /\ isBinary' = bin
  /\ replyVec' = vec
  /\ stmp' = StmpOf(bin, vec)
  /\ ParseAsciiBody(StmpOf(bin, vec))

\* double AngleCompensator::compensateAngleInRad(double angleInRad)
CompensateAngleInRad(angleInRad) ==
  /\ op' = "compensateAngleInRad"
  /\ ret' = [angle |-> angleInRad, amplFactor |-> "deg2radFactor",
             ampl |-> ac.amplCorr, phase |-> ac.phaseCorrInRad,
             offset |-> ac.offsetCorrInRad]
  /\ outcome' = NoCall
  /\ NoVector
  /\ replyStr' = << >>
  /\ UNCHANGED ac
  /\ UNCHANGED thrVars

\* line 121 without its "double": the member phaseCorrInRad is assigned
CompensateAngleInDeg_AssignsMember(angleInDeg) ==
  /\ op' = "compensateAngleInDeg"
  /\ ac' = [ac EXCEPT !.phaseCorrInRad = TimesDeg2RadFactor(ac.phaseCorrInDeg)]
  /\ ret' = [angle |-> angleInDeg, amplFactor |-> "1",
             ampl |-> ac.amplCorr,
             phase |-> TimesDeg2RadFactor(ac.phaseCorrInDeg),
             offset |-> ac.offsetCorrInDeg]
  /\ outcome' = NoCall
  /\ NoVector
  /\ replyStr' = << >>
  /\ UNCHANGED thrVars

\* double AngleCompensator::compensateAngleInDeg(double angleInDeg)
CompensateAngleInDeg(angleInDeg) ==
  /\ op' = "compensateAngleInDeg"
  /\ LET phaseCorrInRad == TimesDeg2RadFactor(ac.phaseCorrInDeg)
     IN ret' = [angle |-> angleInDeg, amplFactor |-> "1",
                ampl |-> ac.amplCorr, phase |-> phaseCorrInRad,
                offset |-> ac.offsetCorrInDeg]
  /\ outcome' = NoCall
  /\ NoVector
  /\ replyStr' = << >>
  /\ UNCHANGED ac
  /\ UNCHANGED thrVars

\* the calls a caller makes in any order: the testbed's frames and replies,
\* malformed ones, and compensations in between
TestbedHeader == TokSRA \o << SP >> \o TokMCAngleCompSin

SeqBinaryReplies ==
  { TestbedHeader \o << SP >> \o a.bytes \o p.bytes \o a.bytes : a \in Words, p \in Words }

SeqAsciiReplies ==
  { Reply5(TestbedHeader, a.stripped, p.full, a.low16) : a \in Words, p \in Words }
    \cup { Reply5(TestbedHeader, t, t, t) : t \in Tokens }
    \cup BadReplies \cup MiscountReplies

SeqTextVecs ==
  { Reply5(h, Tok765, Tok765, Tok765) : h \in Headers } \cup MiscountReplies

Next ==
  \/ \E s \in SeqAsciiReplies : ParseAsciiReply(s) /\ NoVector
  \/ \E v \in SeqBinaryReplies \cup ShortReplies : ParseReply(TRUE, v)
  \/ \E v \in SeqTextVecs : ParseReply(FALSE, v)
  \/ \E a \in Angles : CompensateAngleInRad(a)
  \/ \E a \in Angles : CompensateAngleInDeg(a)

Spec == Init /\ [][Next]_vars

(* ---------------- one decode per behaviour, all inputs ------------------ *)
\* calibrations a compensator holds before a reply arrives: none, or the one
\* of "sRA MCAngleCompSin +1893 -210503 -245"
PresetModels ==
  { [amplCorr |-> Zero, phaseCorrInDeg |-> Zero, phaseCorrInRad |-> Zero,
     offsetCorrInDeg |-> Zero, offsetCorrInRad |-> Zero],
    [amplCorr |-> Scale10000th(1893),
     phaseCorrInDeg |-> Scale10000th(-210503),
     phaseCorrInRad |-> DegToRad(Scale10000th(-210503)),
     offsetCorrInDeg |-> Scale10000th(-245),
     offsetCorrInRad |-> DegToRad(Scale10000th(-245))] }

\* the caller holds the reply it is about to hand over
InitDecode ==
  /\ ac \in PresetModels
  /\ stmp = << >>
  /\ outcome = NoCall
  /\ ret = NoCall
  /\ wpc = "none"
  /\ rpc = NoThread
  /\ rd = NoReads
  /\ \/ /\ op = "call parseReply"
        /\ isBinary = TRUE
        /\ replyVec \in BinaryReplies \cup ShortReplies
        /\ replyStr = << >>
     \/ /\ op = "call parseReply"
        /\ isBinary = FALSE
        /\ replyVec \in SeqTextVecs
        /\ replyStr = << >>
     \/ /\ op = "call parseAsciiReply"
        /\ isBinary = FALSE
        /\ replyVec = << >>
        /\ replyStr \in AsciiReplies

CallParseReply ==
  /\ op = "call parseReply"
  /\ ParseReply(isBinary, replyVec)

CallParseAsciiReply ==
  /\ op = "call parseAsciiReply"
  /\ ParseAsciiReply(replyStr)
  /\ NoVector

\* as the testbed does: after a binary frame, the ASCII reply that carries
\* the same words as hex literals; the caller still holds the frame
ReparseAsAscii ==
  /\ op = "parseReply"
  /\ isBinary
  /\ \E h \in Headers, a \in Words, p \in Words, o \in Words, st \in RenderStyles :
       /\ replyVec = h \o << SP >> \o a.bytes \o p.bytes \o o.bytes
       /\ ParseAsciiReply(Reply5(h, Render(a, st, TRUE), Render(p, st, FALSE),
                                 Render(o, st, TRUE)))
  /\ UNCHANGED << isBinary, replyVec, stmp >>

NextDecode == CallParseReply \/ CallParseAsciiReply \/ ReparseAsAscii

SpecDecode == InitDecode /\ [][NextDecode]_vars

(* ------------- a decode and a compensation in two threads --------------- *)
\* the calibration in effect when the threads start: the one of the
\* testbed's last reply
ConcBefore ==
  [amplCorr |-> Scale10000th(1893),
   phaseCorrInDeg |-> Scale10000th(-210503),
   phaseCorrInRad |-> DegToRad(Scale10000th(-210503)),
   offsetCorrInDeg |-> Scale10000th(-245),
   offsetCorrInRad |-> DegToRad(Scale10000th(-245))]

\* the replies the decoding thread is given: valid ones
ConcReplies ==
  { Reply5(TestbedHeader, t1, t2, t1) : t1 \in Tokens, t2 \in Tokens }

\* the members each compensation reads (lines 107; 121 and 122)
MembersRead(fn) ==
  IF fn = "compensateAngleInRad"
  THEN { "amplCorr", "phaseCorrInRad", "offsetCorrInRad" }
  ELSE { "phaseCorrInDeg", "amplCorr", "offsetCorrInDeg" }

\* one thread is at line 179 of parseAsciiReply, the tokens parsed; the other
\* enters a compensation
InitConc ==
  /\ ac = ConcBefore
  /\ op = "threads"
  /\ isBinary = FALSE
  /\ replyVec = << >>
  /\ stmp = << >>
  /\ replyStr \in ConcReplies
  /\ outcome = NoCall
  /\ ret = NoCall
  /\ wpc = "l179"
  /\ \E fn \in CompensateOps : rpc = [fn |-> fn, pending |-> MembersRead(fn), returned |-> FALSE]
  /\ rd = NoReads

\* the locals ampl10000th, phase10000th, offset10000th of the decoding thread
WriterValues == ParseValues(GetLineTokens(CStr(replyStr)))

\* lines 179-184, one member assignment each, no lock taken
WriterAssign ==
  /\ wpc \in { "l179", "l180", "l181", "l183", "l184" }
  /\ ac' = IF wpc = "l179"
             THEN [ac EXCEPT !.amplCorr = Scale10000th(WriterValues.ampl10000th)]
           ELSE IF wpc = "l180"
             THEN [ac EXCEPT !.phaseCorrInDeg = Scale10000th(WriterValues.phase10000th)]
           ELSE IF wpc = "l181"
             THEN [ac EXCEPT !.offsetCorrInDeg = Scale10000th(WriterValues.offset10000th)]
           ELSE IF wpc = "l183"
             THEN [ac EXCEPT !.offsetCorrInRad = DegToRad(ac.offsetCorrInDeg)]
           ELSE [ac EXCEPT !.phaseCorrInRad = DegToRad(ac.phaseCorrInDeg)]
  /\ wpc' = IF wpc = "l179" THEN "l180"
            ELSE IF wpc = "l180" THEN "l181"
            ELSE IF wpc = "l181" THEN "l183"
            ELSE IF wpc = "l183" THEN "l184"
            ELSE "l185"
  /\ UNCHANGED << op, isBinary, replyVec, stmp, replyStr, outcome, ret, rpc, rd >>

\* line 185: return (retCode)
WriterReturn ==
  /\ wpc = "l185"
  /\ wpc' = "returned"
  /\ outcome' = "0"
  /\ UNCHANGED << ac, op, isBinary, replyVec, stmp, replyStr, ret, rpc, rd >>

\* the compensating thread loads one member; line 121 is sequenced before
\* line 122, the loads within one expression are unsequenced
ReaderLoad ==
  /\ \E f \in rpc.pending :
       /\ (rpc.fn = "compensateAngleInDeg" /\ "phaseCorrInDeg" \in rpc.pending)
            => f = "phaseCorrInDeg"
       /\ rd' = [g \in (DOMAIN rd) \cup {f} |-> IF g = f THEN ac[f] ELSE rd[g]]
       /\ rpc' = [rpc EXCEPT !.pending = @ \ {f}]
  /\ UNCHANGED << ac, op, isBinary, replyVec, stmp, replyStr, outcome, ret, wpc >>

\* the compensating thread returns the value computed from what it loaded
ReaderReturn ==
  /\ rpc.fn \in CompensateOps
  /\ rpc.pending = {}
  /\ ~rpc.returned
  /\ rpc' = [rpc EXCEPT !.returned = TRUE]
  /\ \E a \in Angles :
       ret' = IF rpc.fn = "compensateAngleInRad"
              THEN [angle |-> a, amplFactor |-> "deg2radFactor",
                    ampl |-> rd["amplCorr"], phase |-> rd["phaseCorrInRad"],
                    offset |-> rd["offsetCorrInRad"]]
              ELSE [angle |-> a, amplFactor |-> "1",
                    ampl |-> rd["amplCorr"],
                    phase |-> TimesDeg2RadFactor(rd["phaseCorrInDeg"]),
                    offset |-> rd["offsetCorrInDeg"]]
  /\ UNCHANGED << ac, op, isBinary, replyVec, stmp, replyStr, outcome, wpc, rd >>

NextConc == WriterAssign \/ WriterReturn \/ ReaderLoad \/ ReaderReturn

SpecConc == InitConc /\ [][NextConc]_vars

(* ======================================================================= *)
(* Properties.  The definitions below state the claims in terms of the     *)
(* reply text itself: fields are found by the positions of the spaces,     *)
(* literals are valued by ordinary integer arithmetic.                     *)
(* ======================================================================= *)
SpaceCount(s) == Cardinality({ i \in 1..Len(s) : s[i] = SP })

\* the number of space-separated tokens of a reply text
FieldCount(s) == IF s = << >> THEN 0 ELSE SpaceCount(s) + 1

\* the position of the k-th space of s; 0 for k = 0, Len(s)+1 past the last
SpacePos(s, k) ==
  IF k = 0 THEN 0
  ELSE IF k > SpaceCount(s) THEN Len(s) + 1
  ELSE CHOOSE i \in 1..Len(s) :
         s[i] = SP /\ Cardinality({ j \in 1..i : s[j] = SP }) = k

\* the k-th space-separated token of s
Field(s, k) == SubSeq(s, SpacePos(s, k - 1) + 1, SpacePos(s, k) - 1)

UpperHexDigits == << 48, 49, 50, 51, 52, 53, 54, 55, 56, 57, 65, 66, 67, 68, 69, 70 >>
LowerHexDigits == << 48, 49, 50, 51, 52, 53, 54, 55, 56, 57, 97, 98, 99, 100, 101, 102 >>

IsHexChar(c) == \E n \in 1..16 : c = UpperHexDigits[n] \/ c = LowerHexDigits[n]
IsDecChar(c) == \E n \in 1..10 : c = UpperHexDigits[n]
DigitOf(c) == (CHOOSE n \in 1..16 : c = UpperHexDigits[n] \/ c = LowerHexDigits[n]) - 1

\* a signed decimal literal: a sign and at least one decimal digit
IsDecLiteral(t) ==
  /\ Len(t) >= 2
  /\ t[1] \in {PLUS, MINUS}
  /\ \A i \in 2..Len(t) : IsDecChar(t[i])

\* an unsigned hexadecimal literal: at least one hex digit, nothing else
IsHexLiteral(t) ==
  /\ Len(t) >= 1
  /\ \A i \in 1..Len(t) : IsHexChar(t[i])

\* the literals whose value the arithmetic below can state: at most nine
\* decimal digits, at most sixteen hex digits (64 bit)
IsValueLiteral(t) ==
  \/ IsDecLiteral(t) /\ Len(t) <= 10
  \/ IsHexLiteral(t) /\ Len(t) <= 16

RECURSIVE PlainValue(_, _)
\* the number a digit string denotes in the given base
PlainValue(d, base) ==
  IF d = << >> THEN 0
  ELSE PlainValue(SubSeq(d, 1, Len(d) - 1), base) * base + DigitOf(d[Len(d)])

DecValue(t) ==
  IF t[1] = MINUS THEN 0 - PlainValue(Tail(t), 10) ELSE PlainValue(Tail(t), 10)

\* the last n characters of t (all of t when it is shorter), the last m dropped
LastDigits(t, n, m) ==
  SubSeq(t, IF Len(t) - m - n + 1 < 1 THEN 1 ELSE Len(t) - m - n + 1, Len(t) - m)

Signed16(u) == IF u >= 32768 THEN u - 65536 ELSE u

\* bits 0..15 and bits 16..31 of the integer a literal denotes
Bits0to15(t) ==
  IF IsDecLiteral(t) THEN DecValue(t) % 65536
  ELSE PlainValue(LastDigits(t, 4, 0), 16)

Bits16to31(t) ==
  IF IsDecLiteral(t) THEN ((DecValue(t) - (DecValue(t) % 65536)) \div 65536) % 65536
  ELSE PlainValue(LastDigits(t, 4, 4), 16)

\* the low 16 (32) bits of the literal's integer, read as two's complement
AsSigned16(t) == Signed16(Bits0to15(t))
AsSigned32(t) == Signed16(Bits16to31(t)) * 65536 + Bits0to15(t)

\* n / 10000 as a value of the model
TenThousandths(n) ==
  IF n = 0 THEN Zero ELSE [num |-> n, den |-> 10000, unit |-> "1"]

\* x * pi / 180 as a value of the model
TimesPiOver180(x) ==
  IF x.num = 0 THEN Zero ELSE [num |-> x.num, den |-> x.den * 180, unit |-> "M_PI"]

ValidReply(s) ==
  /\ FieldCount(s) = 5
  /\ \A k \in 3..5 : IsValueLiteral(Field(s, k))

\* "sRA MCAngleCompSin +1893 -210503 -245"
DecimalExample == Reply5(TestbedHeader, SampleTokens[2], SampleTokens[3], SampleTokens[4])
\* "sRA MCAngleCompSin 765 FFFCC9B9 FFFFFF0B"
HexExample ==
  Reply5(TestbedHeader, SampleWords[1].stripped, SampleWords[2].full, SampleWords[3].full)
\* the binary frame of the testbed
BinaryExample == TestbedHeader \o << SP >> \o DataArr

\* C4: after the decode of a valid 5-token reply the three stored values are
\* the value tokens' integers (signed decimal after + or -, hexadecimal
\* otherwise), cut to their low 16, 32 and 16 bits and read as two's
\* complement, divided by 10000; "+1893 -210503 -245" gives 1893, -210503 and
\* -245 ten-thousandths, FFFE in a 16-bit field gives -2, FFFFFF0B as offset
\* gives -245
C4_NarrowedSignedValues ==
  (op \in DecodeOps /\ ValidReply(replyStr)) =>
     /\ outcome = "0"
     /\ ac.amplCorr = TenThousandths(AsSigned16(Field(replyStr, 3)))
     /\ ac.phaseCorrInDeg = TenThousandths(AsSigned32(Field(replyStr, 4)))
     /\ ac.offsetCorrInDeg = TenThousandths(AsSigned16(Field(replyStr, 5)))
     /\ (replyStr = DecimalExample =>
           /\ ac.amplCorr = [num |-> 1893, den |-> 10000, unit |-> "1"]
           /\ ac.phaseCorrInDeg = [num |-> -210503, den |-> 10000, unit |-> "1"]
           /\ ac.offsetCorrInDeg = [num |-> -245, den |-> 10000, unit |-> "1"])
     /\ (Field(replyStr, 3) = SampleTokens[1] => ac.amplCorr.num = -2)
     /\ (Field(replyStr, 5) = SampleWords[3].full => ac.offsetCorrInDeg.num = -245)

\* C4 witness: "FFFE" was decoded as amplitude and as phase, "-245" as offset
C4_Witness ==
  /\ op = "parseAsciiReply"
  /\ replyStr = Reply5(TestbedHeader, SampleTokens[1], SampleTokens[1], SampleTokens[4])
  /\ ac.amplCorr.num = -2
  /\ ac.phaseCorrInDeg.num = 65534
  /\ ac.offsetCorrInDeg.num = -245

\* a binary frame: a header of two tokens, a space, twelve payload bytes
IsBinaryFrame(v) ==
  /\ Len(v) >= 13
  /\ v[Len(v) - 12] = SP
  /\ LET hdr == SubSeq(v, 1, Len(v) - 13)
     IN FieldCount(hdr) = 2 /\ \A i \in 1..Len(hdr) : hdr[i] # NUL

\* the k-th of the eight hex digits of a 4-byte big-endian word
Nibble(w, k) ==
  IF k % 2 = 1 THEN w[(k + 1) \div 2] \div 16 ELSE w[k \div 2] % 16

\* tok renders the n low hex digits of the word w, leading zeros kept or
\* dropped; the digits it leaves out are zero
RendersLow(tok, w, n) ==
  /\ IsHexLiteral(tok)
  /\ Len(tok) <= n
  /\ \A j \in 1..Len(tok) : DigitOf(tok[j]) = Nibble(w, 8 - Len(tok) + j)
  /\ \A k \in (8 - n + 1)..(8 - Len(tok)) : Nibble(w, k) = 0

\* tok is a hex rendering of the word, or of the 16 bits a 16-bit field keeps
RendersWord(tok, w, narrow) ==
  \/ RendersLow(tok, w, 8)
  \/ narrow /\ RendersLow(tok, w, 4)

\* s is the ASCII reply with the header of the frame v whose value tokens
\* render the three words of v
AsciiEquivalent(v, s) ==
  /\ IsBinaryFrame(v)
  /\ FieldCount(s) = 5
  /\ SubSeq(s, 1, SpacePos(s, 2)) = SubSeq(v, 1, Len(v) - 12)
  /\ RendersWord(Field(s, 3), SubSeq(v, Len(v) - 11, Len(v) - 8), TRUE)
  /\ RendersWord(Field(s, 4), SubSeq(v, Len(v) - 7, Len(v) - 4), FALSE)
  /\ RendersWord(Field(s, 5), SubSeq(v, Len(v) - 3, Len(v)), TRUE)

FixedPointValues(m) == << m.amplCorr, m.phaseCorrInDeg, m.offsetCorrInDeg >>

\* C5: when the ASCII reply that carries the words of a binary frame as hex
\* literals (leading zeros kept or dropped) is decoded right after the frame
\* itself, it yields the same amplitude, phase and offset as the frame did
C5_BinaryAsciiEquivalence ==
  [][ ( /\ op = "parseReply" /\ isBinary
        /\ op' = "parseAsciiReply"
        /\ AsciiEquivalent(replyVec, replyStr') )
      => ( /\ outcome = "0" /\ outcome' = "0"
           /\ FixedPointValues(ac') = FixedPointValues(ac) ) ]_vars

\* C5 witness: the testbed's frame and then its ASCII reply were decoded
C5_Witness ==
  /\ op = "parseAsciiReply"
  /\ replyVec = BinaryExample
  /\ replyStr = HexExample
  /\ AsciiEquivalent(replyVec, replyStr)
  /\ ac.amplCorr.num = 1893
  /\ ac.phaseCorrInDeg.num = -210503
  /\ ac.offsetCorrInDeg.num = -245

\* what the normalisation of a frame of n >= 12 bytes has in common in the
\* claim and in its amendment: the first n-12 bytes verbatim, then the last
\* twelve bytes as two uppercase hex digits each, in groups of the given
\* numbers of bytes parted by single spaces, no trailing space
RECURSIVE SumTo(_, _)
SumTo(g, k) == IF k = 0 THEN 0 ELSE SumTo(g, k - 1) + g[k]

NormalisedAs(v, s, groups) ==
  LET n == Len(v)
      tail == SubSeq(s, n - 12 + 1, Len(s))
  IN /\ SubSeq(s, 1, n - 12) = SubSeq(v, 1, n - 12)
     /\ FieldCount(tail) = 3
     /\ \A k \in 1..3 : Len(Field(tail, k)) = 2 * groups[k]
     /\ tail # << >> /\ tail[Len(tail)] # SP
     /\ \A k \in 1..3 : \A j \in 1..groups[k] :
          LET b == v[n - 12 + SumTo(groups, k - 1) + j]
              f == Field(tail, k)
          IN /\ f[2 * j - 1] = UpperHexDigits[(b \div 16) + 1]
             /\ f[2 * j] = UpperHexDigits[(b % 16) + 1]

\* C8 as stated: three groups of 4, 8 and 4 hex characters (2, 4 and 2 bytes)
C8_Groups484 ==
  (op = "parseReply" /\ isBinary /\ Len(replyVec) >= 12) =>
     NormalisedAs(replyVec, stmp, << 2, 4, 2 >>)

\* C8 as amended: for every frame of n >= 12 bytes the string built is the
\* first n-12 bytes verbatim, then the last twelve bytes as two uppercase hex
\* digits each in three groups of 8 hex characters (4 bytes) parted by single
\* spaces, without a trailing space
C8_Groups888 ==
  (op = "parseReply" /\ isBinary /\ Len(replyVec) >= 12) =>
     NormalisedAs(replyVec, stmp, << 4, 4, 4 >>)

\* C8 witness: the testbed's frame became "sRA MCAngleCompSin 00000765
\* FFFCC9B9 FFFFFF0B"
C8_Witness ==
  /\ op = "parseReply" /\ isBinary
  /\ replyVec = BinaryExample
  /\ stmp = Reply5(TestbedHeader, SampleWords[1].full, SampleWords[2].full,
                   SampleWords[3].full)

\* C7: a compensation leaves all five members as they are, and a step that
\* changes a member is a decode
C7_CompensationIsReadOnly ==
  [][ /\ (op' \in CompensateOps => ac' = ac)
      /\ (ac' # ac => op' \in DecodeOps) ]_vars

\* C7 witness: a compensation in degrees ran on a decoded calibration
C7_Witness ==
  /\ op = "compensateAngleInDeg"
  /\ ac.phaseCorrInDeg.num = -210503
  /\ ret.phase = [num |-> -210503, den |-> 10000, unit |-> "deg2radFactor"]
  /\ ac.phaseCorrInRad = [num |-> -210503, den |-> 1800000, unit |-> "M_PI"]

\* C9: in every state the radian members are the degree members times pi/180
C9_DegRadConsistent ==
  /\ ac.phaseCorrInRad = TimesPiOver180(ac.phaseCorrInDeg)
  /\ ac.offsetCorrInRad = TimesPiOver180(ac.offsetCorrInDeg)

\* C9 witness: a decode replaced a calibration by another, non-zero one
C9_Witness ==
  /\ op \in DecodeOps
  /\ outcome = "0"
  /\ ac.phaseCorrInDeg.num = 65534
  /\ ac.phaseCorrInRad = [num |-> 65534, den |-> 1800000, unit |-> "M_PI"]
  /\ ac.offsetCorrInRad = [num |-> -2, den |-> 1800000, unit |-> "M_PI"]

\* a value token that is no literal under the sign-prefix rule: after + or -
\* not a decimal integer, without a sign not a hexadecimal integer
IsBadLiteral(t) ==
  IF t # << >> /\ t[1] \in {PLUS, MINUS} THEN ~IsDecLiteral(t) ELSE ~IsHexLiteral(t)

\* C1: a decode of a reply text whose token count is not 5 reports
\* MalformedFrame and leaves all five members as they were
C1_MalformedFrameReported ==
  [][ (op' \in DecodeOps /\ FieldCount(replyStr') # 5)
      => (outcome' = "MalformedFrame" /\ ac' = ac) ]_vars

\* C2: parseReply(false, payload) hands the payload's bytes to the ASCII
\* parser, so that a valid payload is decoded to its values; in binary mode
\* the parser gets the normalisation of the payload
C2_RoutesPayloadToAsciiParser ==
  op = "parseReply" =>
    /\ isBinary => replyStr = stmp
    /\ ~isBinary =>
         /\ replyStr = replyVec
         /\ ValidReply(replyVec) =>
              /\ ac.amplCorr = TenThousandths(AsSigned16(Field(replyVec, 3)))
              /\ ac.phaseCorrInDeg = TenThousandths(AsSigned32(Field(replyVec, 4)))
              /\ ac.offsetCorrInDeg = TenThousandths(AsSigned16(Field(replyVec, 5)))

\* C3: a decode of a 5-token reply with a value token that is no literal
\* fails with a signal of its own (an exception of the conversion counts as
\* one) and leaves all five members as they were
C3_InvalidLiteralReported ==
  [][ ( /\ op' \in DecodeOps
        /\ FieldCount(replyStr') = 5
        /\ \E k \in 3..5 : IsBadLiteral(Field(replyStr', k)) )
      => ( /\ outcome' \in { "InvalidNumericLiteral", "invalid_argument", "out_of_range" }
           /\ ac' = ac ) ]_vars

\* C6: parseReply in binary mode on fewer than 12 bytes reports
\* MalformedFrame and reads no byte outside the payload
C6_ShortBinaryReported ==
  (op = "parseReply" /\ isBinary /\ Len(replyVec) < 12) =>
     /\ outcome = "MalformedFrame"
     /\ ReadIndices(isBinary, replyVec) \subseteq 0..(Len(replyVec) - 1)

\* the calibration the decoding thread installs
ConcAfter ==
  UpdatedModel(ConcBefore, WriterValues.ampl10000th, WriterValues.phase10000th,
               WriterValues.offset10000th)

\* C10: what a compensation running beside a decode has read is entirely
\* the calibration before the decode or entirely the one after it
C10_NoTornRead ==
  (rpc.fn \in CompensateOps /\ rpc.pending = {}) =>
     \/ \A f \in DOMAIN rd : rd[f] = ConcBefore[f]
     \/ \A f \in DOMAIN rd : rd[f] = ConcAfter[f]

====
